---- MODULE Spec2Model ----
(***************************************************************************)
(* The reliable consumption engine of the telemetry collector:             *)
(* apps/collector/src/messaging/consumer.rs (Consumer), channel.rs         *)
(* (ChannelProvider) and the start-up / shutdown sequence of main.rs,      *)
(* together with the AMQP broker the consumer talks to.                    *)
(*                                                                         *)
(* The consumer task and the main task are modelled with one program       *)
(* counter each; every await of the code is one step.  The broker holds    *)
(* the queue triple Q, Q.retry, Q.dlq; frames the consumer sends travel on *)
(* a FIFO wire and are handled by the broker in order.                     *)
(***************************************************************************)
EXTENDS Integers, Sequences, FiniteSets, TLC

\* ------------------------------------------------------------------ bounds
MaxFaults == 1
MaxForeignCount == 4
MaxCalls == 2

\* ------------------------------------------------------- program constants
MAX_RETRIES == 3
RETRY_DELAY_MS == 5000
PrefetchCount == 10

MainQueueName == "telemetry"
DlqName == "telemetry.dlq"
RetryName == "telemetry.retry"

\* The failure strings handlers may return.
Reasons == {"e1", "e2"}

\* The publishers other than the consumer; each sends one message to Q, with
\* a payload of its own.  (examples/publish_test.rs, publish_retry_test.rs
\* are such publishers.)  The consumer handles one delivery at a time, so one
\* message shows every step of its life; the state space with a second
\* publisher ({"a", "b"}) is too large to exhaust, and a breadth-first run
\* over its first 7.8 million states (depth 26) violates none of the
\* invariants below.
Publishers == {"a"}

\* ----------------------------------------------------- header values
\* What a message has for x-retry-count: NoTable (the properties have no
\* header table at all, as the messages of examples/publish_test.rs), Absent
\* (a table without the header), LongUInt (u32) or LongInt (a signed
\* integer, as a foreign publisher may write).
NoTable == [t |-> "notable", v |-> 0]
Absent == [t |-> "none", v |-> 0]
LongUInt(n) == [t |-> "u32", v |-> n]
LongInt(n) == [t |-> "i32", v |-> n]

ForeignCounts == {NoTable, Absent} \cup {LongUInt(n) : n \in 0..MaxForeignCount}
                   \cup {LongInt(n) : n \in {2}}

\* ------------------------------------------------------------ handler
\* HandlerError / Result<(), HandlerError>
OkOutcome == [kind |-> "ok", reason |-> ""]
Transient(r) == [kind |-> "transient", reason |-> r]
Permanent(r) == [kind |-> "permanent", reason |-> r]
Outcomes == {OkOutcome} \cup {Transient(r) : r \in Reasons}
              \cup {Permanent(r) : r \in Reasons}

VARIABLES
    mpc,        \* main task: "setup1","setup2","setup3" (in setup_queues, at
                \*   the first, second, third queue_declare), "setup_ok",
                \*   "ready","join","closed","stopped","exit1"
    cpc,        \* consumer task: "idle","consume","select","handle","publish",
                \*   "confirm","ack","exited","failed","dropped"
    declared,   \* queues declared on the broker, with their arguments
    mainQ,      \* broker queue Q
    retryQ,     \* broker queue Q.retry
    dlq,        \* broker queue Q.dlq
    unacked,    \* broker side: the deliveries not acked, [tag, msg]
    wire,       \* frames sent on the channel, not yet handled by the broker
    permit,     \* tokio Notify: a notification is pending
    connOpen,   \* the broker connection is open
    cur,        \* the delivery process_message is working on
    dlog,       \* per delivery tag: what the consumer did for it
    nextTag,    \* next delivery tag of the channel
    published,  \* the publishers that have sent their message
    faults,     \* number of broker / transport failures so far
    metrics,    \* the Metrics counters and gauge
    calls       \* how many times setup_queues has been called

vars == <<calls, mpc, cpc, declared, mainQ, retryQ, dlq, unacked, wire, permit,
          connOpen, cur, dlog, nextTag, published, faults, metrics>>

\* ------------------------------------------------------------- messages
\* hdr: the header table; data: the payload; dm: delivery_mode; ts: the
\* timestamp property is set.  orig and via are history fields (what the
\* payload was when the message first entered Q, and how the message got
\* into the queue it is in); the program never reads them.
\* other is a header of the publisher's own ("" when there is none).
NoHeaders ==
    [rc |-> Absent, reason |-> "", etype |-> "", origq |-> "", other |-> ""]

NewMessage(p, c) ==
    [data |-> p,
     hdr |-> [NoHeaders EXCEPT !.rc = c,
                               !.other = IF c = NoTable THEN "" ELSE p],
     dm |-> 0, ts |-> FALSE,
     orig |-> p, via |-> "foreign", inrc |-> Absent]

NoMessage ==
    [data |-> "", hdr |-> NoHeaders, dm |-> 0, ts |-> FALSE,
     orig |-> "", via |-> "none", inrc |-> Absent]

\* The locals of process_message: delivery_tag, the delivery (data and
\* properties), retry_count, the handler's result, and the message built for
\* the republish.
NoDelivery ==
    [tag |-> 0, msg |-> NoMessage, retry_count |-> 0, outcome |-> OkOutcome,
     route |-> "none", out |-> NoMessage]

\* What has happened for one delivery tag: the handler result and the route
\* taken, the republish (pub: "none", "err" the publish
\* call failed, "sent" the frame is written, "enq" the broker enqueued it,
\* "lost" the broker did not), how many publish frames and acks the consumer
\* sent for the tag, whether the broker confirmed the publish to the
\* consumer, and whether process_message has returned.  inrc is the
\* x-retry-count header the delivery came with; afterNotify: the delivery was
\* taken from the stream after main called notify_one; signalled: notify_one
\* was called while the handler was running on the delivery.
NewLog(notified) ==
    [outcome |-> "none", route |-> "none", pub |-> "none",
     pubs |-> 0, acks |-> 0, ackerr |-> FALSE, confirmed |-> FALSE,
     done |-> FALSE, afterNotify |-> notified, signalled |-> FALSE,
     inrc |-> Absent]

NoMetrics ==
    [processed |-> 0, failed_transient |-> 0, failed_permanent |-> 0,
     retried |-> 0, dlq |-> 0, observed |-> 0, active |-> 0]

\* Mutant of GetRetryCount: a signed integer is read as well.
GetRetryCount_AnyInt(hdr) ==
    IF hdr.rc.t \in {"u32", "i32"} THEN hdr.rc.v ELSE 0

\* Mutant of GetRetryCount: the header is never read.
GetRetryCount_Zero(hdr) == 0

\* ------------------------------------------------- Consumer::get_retry_count
GetRetryCount(hdr) ==
    IF hdr.rc.t = "u32" THEN hdr.rc.v ELSE 0


\* Mutant of Route: the budget test is `>` where the code has `>=`.
Route_Gt(outcome, retry_count) ==
    IF outcome.kind = "ok" THEN "ack"
    ELSE IF outcome.kind = "transient"
         THEN IF retry_count > MAX_RETRIES THEN "dlq" ELSE "retry"
         ELSE "dlq"

\* ------------------------------------------------- Consumer::process_message
\* The match on the handler's result and the retry budget test: where the
\* delivery goes.
Route(outcome, retry_count) ==
    IF outcome.kind = "ok" THEN "ack"
    ELSE IF outcome.kind = "transient"
         THEN IF retry_count >= MAX_RETRIES THEN "dlq" ELSE "retry"
         ELSE "dlq"

\* The error_type string process_message passes to reject_to_dlq_with_reason.
ErrorType(outcome) ==
    IF outcome.kind = "transient" THEN "transient" ELSE "permanent"

\* Mutant of RetryMessage: the counter is written back without the + 1.
RetryMessage_NoIncrement(data, msg, retry_count, error_reason) ==
    [data |-> data,
     hdr  |-> [msg.hdr EXCEPT !.rc = LongUInt(retry_count),
                              !.reason = error_reason,
                              !.etype = "transient"],
     dm   |-> 2,
     ts   |-> FALSE,
     orig |-> msg.orig,
     via  |-> "retry",
     inrc |-> msg.hdr.rc]

\* Mutant of RetryMessage: the republish is made with an empty body.
RetryMessage_NoPayload(data, msg, retry_count, error_reason) ==
    [data |-> "",
     hdr  |-> [msg.hdr EXCEPT !.rc = LongUInt(retry_count + 1),
                              !.reason = error_reason,
                              !.etype = "transient"],
     dm   |-> 2,
     ts   |-> FALSE,
     orig |-> msg.orig,
     via  |-> "retry",
     inrc |-> msg.hdr.rc]

\* ---------------------------------------------------- Consumer::retry_message
\* The message retry_message publishes to Q.retry: the incoming headers with
\* x-retry-count, x-error-reason and x-error-type inserted, delivery_mode 2,
\* every other property left at its default, and the payload it was given.
\* (retry_count + 1 is only evaluated for retry_count < MAX_RETRIES, far from
\* the u32 range's end.)
RetryMessage(data, msg, retry_count, error_reason) ==
    [data |-> data,
     hdr  |-> [msg.hdr EXCEPT !.rc = LongUInt(retry_count + 1),
                              !.reason = error_reason,
                              !.etype = "transient"],
     dm   |-> 2,
     ts   |-> FALSE,
     orig |-> msg.orig,
     via  |-> "retry",
     inrc |-> msg.hdr.rc]

\* Mutant of DlqMessage: an x-error-type that is already there is kept.
DlqMessage_KeepType(data, msg, error_reason, error_type) ==
    [data |-> data,
     hdr  |-> [msg.hdr EXCEPT !.rc = IF @ = NoTable THEN Absent ELSE @,
                              !.reason = error_reason,
                              !.etype = IF msg.hdr.etype # "" THEN msg.hdr.etype
                                        ELSE error_type,
                              !.origq = MainQueueName],
     dm   |-> 2,
     ts   |-> TRUE,
     orig |-> msg.orig,
     via  |-> "dlq",
     inrc |-> msg.hdr.rc]

\* Mutant of DlqMessage: the headers are built from an empty table.
DlqMessage_FreshHeaders(data, msg, error_reason, error_type) ==
    [data |-> data,
     hdr  |-> [NoHeaders EXCEPT !.reason = error_reason,
                                !.etype = error_type,
                                !.origq = MainQueueName],
     dm   |-> 2,
     ts   |-> TRUE,
     orig |-> msg.orig,
     via  |-> "dlq",
     inrc |-> msg.hdr.rc]

\* ---------------------------------------- Consumer::reject_to_dlq_with_reason
\* The message published to Q.dlq: the incoming headers (an empty table when
\* the delivery had none) with x-error-reason, x-error-type and
\* x-original-queue inserted, delivery_mode 2, the timestamp set, and the
\* payload it was given.
DlqMessage(data, msg, error_reason, error_type) ==
    [data |-> data,
     hdr  |-> [msg.hdr EXCEPT !.rc = IF @ = NoTable THEN Absent ELSE @,
                              !.reason = error_reason,
                              !.etype = error_type,
                              !.origq = MainQueueName],
     dm   |-> 2,
     ts   |-> TRUE,
     orig |-> msg.orig,
     via  |-> "dlq",
     inrc |-> msg.hdr.rc]

\* ------------------------------------------ ChannelProvider::create_channel
\* Whether the channel was put in publisher-confirm mode.  create_channel
\* creates the channel and sets the prefetch; it never calls confirm_select,
\* so the future basic_publish returns resolves to Confirmation::NotRequested
\* as soon as the frame is written.
ConfirmSelect == FALSE

\* Mutant of QueueArgs: Q.dlq is declared with the arguments of Q.retry.
QueueArgs_DlqLoops(q) ==
    IF q = DlqName
    THEN [name |-> q, ttl |-> RETRY_DELAY_MS, dlx |-> "", dlrk |-> MainQueueName]
    ELSE IF q = RetryName
         THEN [name |-> q, ttl |-> RETRY_DELAY_MS, dlx |-> "", dlrk |-> MainQueueName]
         ELSE [name |-> q, ttl |-> 0, dlx |-> "", dlrk |-> DlqName]

\* Mutant of QueueArgs: a queue that exists is declared with other arguments
\* than it was created with.
QueueArgs_Again(q) ==
    IF \E d \in declared : d.name = q
    THEN [name |-> q, ttl |-> 2 * RETRY_DELAY_MS, dlx |-> "", dlrk |-> DlqName]
    ELSE IF q = DlqName THEN [name |-> q, ttl |-> 0, dlx |-> "none", dlrk |-> ""]
    ELSE IF q = RetryName
         THEN [name |-> q, ttl |-> RETRY_DELAY_MS, dlx |-> "", dlrk |-> MainQueueName]
         ELSE [name |-> q, ttl |-> 0, dlx |-> "", dlrk |-> DlqName]

\* --------------------------------------------------- Consumer::setup_queues
\* The three declarations in the order the code makes them, with arguments.
QueueArgs(q) ==
    IF q = DlqName THEN [name |-> q, ttl |-> 0, dlx |-> "none", dlrk |-> ""]
    ELSE IF q = RetryName
         THEN [name |-> q, ttl |-> RETRY_DELAY_MS, dlx |-> "", dlrk |-> MainQueueName]
         ELSE [name |-> q, ttl |-> 0, dlx |-> "", dlrk |-> DlqName]

\* Mutant of DeclareOrder: the main queue is declared first.
DeclareOrder_MainFirst == <<MainQueueName, RetryName, DlqName>>

DeclareOrder == <<DlqName, RetryName, MainQueueName>>

Declared(q) == \E d \in declared : d.name = q

\* Where setup_queues stands: the index in DeclareOrder of the queue_declare
\* it makes next (4: all three are made).
NextToDeclare ==
    IF mpc = "setup1" THEN 1
    ELSE IF mpc = "setup2" THEN 2
    ELSE IF mpc = "setup3" THEN 3
    ELSE 4

InSetup == mpc \in {"setup1", "setup2", "setup3"}

AfterDeclare(i) ==
    IF i = 1 THEN "setup2" ELSE IF i = 2 THEN "setup3" ELSE "setup_ok"

\* The queues are durable: the broker may hold queues of these names from
\* before the process started, left by an earlier run or made by hand, each
\* with one of the argument tables below.
ArgsOnBroker(q) ==
    {[name |-> q, ttl |-> 0, dlx |-> "none", dlrk |-> ""],
     [name |-> q, ttl |-> RETRY_DELAY_MS, dlx |-> "", dlrk |-> MainQueueName],
     [name |-> q, ttl |-> 0, dlx |-> "", dlrk |-> DlqName]}

PreExisting ==
    {ds \in SUBSET (UNION {ArgsOnBroker(DeclareOrder[i]) : i \in 1..3}) :
        \A d, e \in ds : d.name = e.name => d = e}

\* queue_declare with passive: false on the broker: a queue of that name
\* that exists with the same arguments is left as it is and the declaration
\* succeeds; one that exists with other arguments makes it fail
\* (PRECONDITION_FAILED); otherwise the queue is created.
DeclareAccepted(a) == \A d \in declared : d.name = a.name => d = a

\* ---------------------------------------------------------------- frames
PublishFrame(q, m, tag) == [kind |-> "publish", queue |-> q, msg |-> m, tag |-> tag]
AckFrame(tag) == [kind |-> "ack", queue |-> "", msg |-> NoMessage, tag |-> tag]

\* ------------------------------------------------------------------ Init
Init ==
    /\ mpc = "setup1"
    /\ cpc = "idle"
    /\ declared \in PreExisting
    /\ mainQ = <<>>
    /\ retryQ = <<>>
    /\ dlq = <<>>
    /\ unacked = {}
    /\ wire = <<>>
    /\ permit = FALSE
    /\ connOpen = TRUE
    /\ cur = NoDelivery
    /\ dlog = <<>>
    /\ nextTag = 1
    /\ published = {}
    /\ faults = 0
    /\ metrics = NoMetrics
    /\ calls = 1


\* ====================================================================
\* main.rs: start-up
\* ====================================================================

\* Mutant of DeclareFails: the error of queue_declare is dropped and
\* setup_queues goes on to the next declaration.
DeclareFails_Ignored ==
    /\ InSetup
    /\ \/ ~DeclareAccepted(QueueArgs(DeclareOrder[NextToDeclare]))
             /\ faults' = faults
       \/ faults < MaxFaults /\ faults' = faults + 1
    /\ mpc' = AfterDeclare(NextToDeclare)
    /\ UNCHANGED <<calls, cpc, declared, mainQ, retryQ, dlq, unacked, wire, permit,
                   connOpen, cur, dlog, nextTag, published, metrics>>

\* setup_queues: the next queue_declare succeeds.
DeclareQueue ==
    /\ InSetup
    /\ DeclareAccepted(QueueArgs(DeclareOrder[NextToDeclare]))
    /\ declared' = declared \cup {QueueArgs(DeclareOrder[NextToDeclare])}
    /\ mpc' = AfterDeclare(NextToDeclare)
    /\ UNCHANGED <<calls, cpc, mainQ, retryQ, dlq, unacked, wire, permit, connOpen,
                   cur, dlog, nextTag, published, faults, metrics>>

\* setup_queues: the next queue_declare fails (the broker refuses it, or
\* the call fails in transport); setup_queues returns SetupFailed and main
\* exits with code 1.
DeclareFails ==
    /\ InSetup
    /\ \/ ~DeclareAccepted(QueueArgs(DeclareOrder[NextToDeclare]))
             /\ faults' = faults
       \/ faults < MaxFaults /\ faults' = faults + 1
    /\ mpc' = "exit1"
    /\ connOpen' = FALSE
    /\ UNCHANGED <<calls, cpc, declared, mainQ, retryQ, dlq, unacked, wire, permit,
                   cur, dlog, nextTag, published, metrics>>

\* setup_queues returned Ok: main spawns the consumer task and waits for ctrl_c.
SpawnConsumer ==
    /\ mpc = "setup_ok"
    /\ mpc' = "ready"
    /\ cpc' = "consume"
    /\ UNCHANGED <<calls, declared, mainQ, retryQ, dlq, unacked, wire, permit, connOpen,
                   cur, dlog, nextTag, published, faults, metrics>>

\* ====================================================================
\* Consumer::start
\* ====================================================================

\* The consumer task runs on main's runtime: it takes steps until main has
\* returned or called exit.
Alive == mpc \notin {"stopped", "exit1"}

\* basic_consume succeeds; active_consumers.inc(); the loop is entered.
ConsumeOk ==
    /\ Alive
    /\ cpc = "consume"
    /\ connOpen
    /\ cpc' = "select"
    /\ metrics' = [metrics EXCEPT !.active = @ + 1]
    /\ UNCHANGED <<calls, mpc, declared, mainQ, retryQ, dlq, unacked, wire, permit,
                   connOpen, cur, dlog, nextTag, published, faults>>

\* basic_consume fails: start returns ConsumeFailed, the task ends.
ConsumeFails ==
    /\ Alive
    /\ cpc = "consume"
    /\ \/ ~connOpen /\ faults' = faults
       \/ connOpen /\ faults < MaxFaults /\ faults' = faults + 1
    /\ cpc' = "failed"
    /\ UNCHANGED <<calls, mpc, declared, mainQ, retryQ, dlq, unacked, wire, permit,
                   connOpen, cur, dlog, nextTag, published, metrics>>

\* select!: the shutdown.notified() branch completes (a notification is
\* stored); break; active_consumers.dec().
SelectShutdown ==
    /\ Alive
    /\ cpc = "select"
    /\ permit
    /\ permit' = FALSE
    /\ cpc' = "exited"
    /\ metrics' = [metrics EXCEPT !.active = @ - 1]
    /\ UNCHANGED <<calls, mpc, declared, mainQ, retryQ, dlq, unacked, wire, connOpen,
                   cur, dlog, nextTag, published, faults>>

\* Mutant of SelectDelivery: the next delivery is taken while the ack of the
\* previous one is still awaited.
SelectDelivery_Early ==
    /\ Alive
    /\ cpc \in {"select", "ack"}
    /\ connOpen
    /\ mainQ # <<>>
    /\ Cardinality(unacked) < PrefetchCount
    /\ LET m == Head(mainQ) IN
         /\ cur' = [NoDelivery EXCEPT !.tag = nextTag, !.msg = m,
                                      !.retry_count = GetRetryCount(m.hdr)]
         /\ dlog' = Append(dlog, [NewLog(mpc \in {"join", "closed"})
                                     EXCEPT !.inrc = m.hdr.rc])
    /\ mainQ' = Tail(mainQ)
    /\ unacked' = unacked \cup {[tag |-> nextTag, msg |-> Head(mainQ)]}
    /\ nextTag' = nextTag + 1
    /\ cpc' = "handle"
    /\ UNCHANGED <<calls, mpc, declared, retryQ, dlq, wire, permit, connOpen,
                   published, faults, metrics>>

\* select!: the consumer.next() branch completes with Some(Ok(delivery)).
\* The macro has no `biased;`: of the branches that are ready it takes any.
\* The broker hands out the head of Q under the next delivery tag, within
\* the channel's prefetch window; process_message reads its locals.
SelectDelivery ==
    /\ Alive
    /\ cpc = "select"
    /\ connOpen
    /\ mainQ # <<>>
    /\ Cardinality(unacked) < PrefetchCount
    /\ LET m == Head(mainQ) IN
         /\ cur' = [NoDelivery EXCEPT !.tag = nextTag, !.msg = m,
                                      !.retry_count = GetRetryCount(m.hdr)]
         /\ dlog' = Append(dlog, [NewLog(mpc \in {"join", "closed"})
                                     EXCEPT !.inrc = m.hdr.rc])
    /\ mainQ' = Tail(mainQ)
    /\ unacked' = unacked \cup {[tag |-> nextTag, msg |-> Head(mainQ)]}
    /\ nextTag' = nextTag + 1
    /\ cpc' = "handle"
    /\ UNCHANGED <<calls, mpc, declared, retryQ, dlq, wire, permit, connOpen,
                   published, faults, metrics>>

\* select!: consumer.next() yields Some(Err(e)); logged, the loop goes on.
SelectRecvError ==
    /\ Alive
    /\ cpc = "select"
    /\ connOpen
    /\ faults < MaxFaults
    /\ faults' = faults + 1
    /\ UNCHANGED <<calls, mpc, cpc, declared, mainQ, retryQ, dlq, unacked, wire, permit,
                   connOpen, cur, dlog, nextTag, published, metrics>>

\* Mutant of SelectStreamEnd: the loop is left without active_consumers.dec().
SelectStreamEnd_NoDec ==
    /\ Alive
    /\ cpc = "select"
    /\ ~connOpen
    /\ cpc' = "exited"
    /\ UNCHANGED <<calls, mpc, declared, mainQ, retryQ, dlq, unacked, wire, permit,
                   connOpen, cur, dlog, nextTag, published, faults, metrics>>

\* select!: consumer.next() yields None (the stream ended: the connection is
\* closed); break; active_consumers.dec().
SelectStreamEnd ==
    /\ Alive
    /\ cpc = "select"
    /\ ~connOpen
    /\ cpc' = "exited"
    /\ metrics' = [metrics EXCEPT !.active = @ - 1]
    /\ UNCHANGED <<calls, mpc, declared, mainQ, retryQ, dlq, unacked, wire, permit,
                   connOpen, cur, dlog, nextTag, published, faults>>


\* ====================================================================
\* Consumer::process_message
\* ====================================================================

\* Mutant of MetricsAfter: the retry arm does not count the retry.
MetricsAfter_NoRetried(m, outcome, route) ==
    IF outcome.kind = "ok"
    THEN [m EXCEPT !.processed = @ + 1, !.observed = @ + 1]
    ELSE IF outcome.kind = "transient"
         THEN IF route = "dlq"
              THEN [m EXCEPT !.failed_transient = @ + 1, !.observed = @ + 1,
                             !.dlq = @ + 1]
              ELSE [m EXCEPT !.failed_transient = @ + 1, !.observed = @ + 1]
         ELSE [m EXCEPT !.failed_permanent = @ + 1, !.observed = @ + 1,
                        !.dlq = @ + 1]

\* Mutant of MetricsAfter: the Permanent arm does not count the DLQ routing.
MetricsAfter_PermanentNoDlq(m, outcome, route) ==
    IF outcome.kind = "ok"
    THEN [m EXCEPT !.processed = @ + 1, !.observed = @ + 1]
    ELSE IF outcome.kind = "transient"
         THEN IF route = "dlq"
              THEN [m EXCEPT !.failed_transient = @ + 1, !.observed = @ + 1,
                             !.dlq = @ + 1]
              ELSE [m EXCEPT !.failed_transient = @ + 1, !.observed = @ + 1,
                             !.retried = @ + 1]
         ELSE [m EXCEPT !.failed_permanent = @ + 1, !.observed = @ + 1]

\* The counters process_message updates once the handler has returned: all of
\* them are incremented before the republish is attempted.
MetricsAfter(m, outcome, route) ==
    IF outcome.kind = "ok"
    THEN [m EXCEPT !.processed = @ + 1, !.observed = @ + 1]
    ELSE IF outcome.kind = "transient"
         THEN IF route = "dlq"
              THEN [m EXCEPT !.failed_transient = @ + 1, !.observed = @ + 1,
                             !.dlq = @ + 1]
              ELSE [m EXCEPT !.failed_transient = @ + 1, !.observed = @ + 1,
                             !.retried = @ + 1]
         ELSE [m EXCEPT !.failed_permanent = @ + 1, !.observed = @ + 1,
                        !.dlq = @ + 1]

\* The message the routed arm builds for its republish (none for Ok).
Republish(d, outcome, route) ==
    IF route = "retry"
    THEN RetryMessage(d.msg.data, d.msg, d.retry_count, outcome.reason)
    ELSE IF route = "dlq"
         THEN DlqMessage(d.msg.data, d.msg, outcome.reason, ErrorType(outcome))
         ELSE NoMessage

\* handler.handle(delivery).await returns o: the match arm updates the
\* metrics and decides the route; the Ok arm goes on to basic_ack, the other
\* arms enter retry_message / reject_to_dlq_with_reason, which build the
\* properties and reach basic_publish.
HandlerReturns(o) ==
    /\ Alive
    /\ cpc = "handle"
    /\ LET r == Route(o, cur.retry_count) IN
         /\ cur' = [cur EXCEPT !.outcome = o, !.route = r,
                               !.out = Republish(cur, o, r)]
         /\ dlog' = [dlog EXCEPT ![cur.tag].outcome = o.kind,
                                 ![cur.tag].route = r]
         /\ metrics' = MetricsAfter(metrics, o, r)
         /\ cpc' = IF r = "ack" THEN "ack" ELSE "publish"
    /\ UNCHANGED <<calls, mpc, declared, mainQ, retryQ, dlq, unacked, wire, permit,
                   connOpen, nextTag, published, faults>>

\* basic_publish(...).await succeeds: the publish frame is written.
PublishOk ==
    /\ Alive
    /\ cpc = "publish"
    /\ connOpen
    /\ wire' = Append(wire, PublishFrame(cur.route, cur.out, cur.tag))
    /\ dlog' = [dlog EXCEPT ![cur.tag].pub = "sent", ![cur.tag].pubs = @ + 1]
    /\ cpc' = "confirm"
    /\ UNCHANGED <<calls, mpc, declared, mainQ, retryQ, dlq, unacked, permit, connOpen,
                   cur, nextTag, published, faults, metrics>>

\* Mutant of PublishFails: the error leaves the loop.
PublishFails_Exits ==
    /\ Alive
    /\ cpc = "publish"
    /\ \/ ~connOpen /\ faults' = faults
       \/ connOpen /\ faults < MaxFaults /\ faults' = faults + 1
    /\ dlog' = [dlog EXCEPT ![cur.tag].pub = "err", ![cur.tag].done = TRUE]
    /\ cur' = NoDelivery
    /\ cpc' = "exited"
    /\ UNCHANGED <<calls, mpc, declared, mainQ, retryQ, dlq, unacked, wire, permit,
                   connOpen, nextTag, published, metrics>>

\* basic_publish(...).await fails: `?` returns the error, process_message
\* logs it and returns; no basic_ack is made.
PublishFails ==
    /\ Alive
    /\ cpc = "publish"
    /\ \/ ~connOpen /\ faults' = faults
       \/ connOpen /\ faults < MaxFaults /\ faults' = faults + 1
    /\ dlog' = [dlog EXCEPT ![cur.tag].pub = "err", ![cur.tag].done = TRUE]
    /\ cur' = NoDelivery
    /\ cpc' = "select"
    /\ UNCHANGED <<calls, mpc, declared, mainQ, retryQ, dlq, unacked, wire, permit,
                   connOpen, nextTag, published, metrics>>

\* The second .await?, on the PublisherConfirm.  On a channel in confirm mode
\* it completes when the broker has answered the publish; on any other
\* channel it is Confirmation::NotRequested at once.
AwaitConfirm ==
    /\ Alive
    /\ cpc = "confirm"
    /\ ConfirmSelect => dlog[cur.tag].pub \in {"enq", "lost"}
    /\ cpc' = "ack"
    /\ UNCHANGED <<calls, mpc, declared, mainQ, retryQ, dlq, unacked, wire, permit,
                   connOpen, cur, dlog, nextTag, published, faults, metrics>>

\* Mutant of AckOk: the delivery is acked a second time.
AckOk_Twice ==
    /\ Alive
    /\ cpc = "ack"
    /\ connOpen
    /\ wire' = wire \o <<AckFrame(cur.tag), AckFrame(cur.tag)>>
    /\ dlog' = [dlog EXCEPT ![cur.tag].acks = @ + 2, ![cur.tag].done = TRUE]
    /\ cur' = NoDelivery
    /\ cpc' = "select"
    /\ UNCHANGED <<calls, mpc, declared, mainQ, retryQ, dlq, unacked, permit, connOpen,
                   nextTag, published, faults, metrics>>

\* basic_ack(delivery_tag).await succeeds: the ack frame is written and
\* process_message returns.
AckOk ==
    /\ Alive
    /\ cpc = "ack"
    /\ connOpen
    /\ wire' = Append(wire, AckFrame(cur.tag))
    /\ dlog' = [dlog EXCEPT ![cur.tag].acks = @ + 1, ![cur.tag].done = TRUE]
    /\ cur' = NoDelivery
    /\ cpc' = "select"
    /\ UNCHANGED <<calls, mpc, declared, mainQ, retryQ, dlq, unacked, permit, connOpen,
                   nextTag, published, faults, metrics>>

\* Mutant of AckFails: the failed basic_ack is made again and succeeds.
AckFails_RetriesAck ==
    /\ Alive
    /\ cpc = "ack"
    /\ connOpen /\ faults < MaxFaults /\ faults' = faults + 1
    /\ wire' = Append(wire, AckFrame(cur.tag))
    /\ dlog' = [dlog EXCEPT ![cur.tag].ackerr = TRUE, ![cur.tag].acks = @ + 1,
                            ![cur.tag].done = TRUE]
    /\ cur' = NoDelivery
    /\ cpc' = "select"
    /\ UNCHANGED <<calls, mpc, declared, mainQ, retryQ, dlq, unacked, permit,
                   connOpen, nextTag, published, metrics>>

\* basic_ack fails: the error is logged (Ok arm) or returned and logged
\* (retry / DLQ arms); nothing is retried and process_message returns.
AckFails ==
    /\ Alive
    /\ cpc = "ack"
    /\ \/ ~connOpen /\ faults' = faults
       \/ connOpen /\ faults < MaxFaults /\ faults' = faults + 1
    /\ dlog' = [dlog EXCEPT ![cur.tag].ackerr = TRUE, ![cur.tag].done = TRUE]
    /\ cur' = NoDelivery
    /\ cpc' = "select"
    /\ UNCHANGED <<calls, mpc, declared, mainQ, retryQ, dlq, unacked, wire, permit,
                   connOpen, nextTag, published, metrics>>

\* ====================================================================
\* main.rs: shutdown
\* ====================================================================

\* Mutant of CtrlC: the notification reaches only a task that is waiting in
\* the select at that moment (notify_waiters); nothing is stored.
CtrlC_NotStored ==
    /\ mpc = "ready"
    /\ permit' = (cpc = "select")
    /\ mpc' = "join"
    /\ dlog' = IF cpc = "handle"
               THEN [dlog EXCEPT ![cur.tag].signalled = TRUE]
               ELSE dlog
    /\ UNCHANGED <<calls, cpc, declared, mainQ, retryQ, dlq, unacked, wire, connOpen,
                   cur, nextTag, published, faults, metrics>>

\* ctrl_c() completes; shutdown.notify_one().  The notification goes to the
\* select's notified() branch when it is waiting and is stored in the Notify
\* otherwise; a notified branch the select drops unpolled hands it back to
\* the Notify.  Either way one notification is pending until the shutdown
\* branch takes it.
CtrlC ==
    /\ mpc = "ready"
    /\ permit' = TRUE
    /\ mpc' = "join"
    /\ dlog' = IF cpc = "handle"
               THEN [dlog EXCEPT ![cur.tag].signalled = TRUE]
               ELSE dlog
    /\ UNCHANGED <<calls, cpc, declared, mainQ, retryQ, dlq, unacked, wire, connOpen,
                   cur, nextTag, published, faults, metrics>>

\* timeout(5 s, consumer_handle) returns because the consumer task has
\* ended; main calls RabbitMqConnection::shutdown, which closes the
\* connection (connection.close(200, ...)).
JoinReturns ==
    /\ mpc = "join"
    /\ cpc \in {"exited", "failed"}
    /\ connOpen' = FALSE
    /\ mpc' = "closed"
    /\ UNCHANGED <<calls, cpc, declared, mainQ, retryQ, dlq, unacked, wire, permit,
                   cur, dlog, nextTag, published, faults, metrics>>

\* Mutant of JoinTimeout: main awaits the consumer task without a timer.
JoinTimeout_NoTimer ==
    /\ mpc = "join"
    /\ FALSE
    /\ UNCHANGED vars

\* timeout(5 s, consumer_handle) returns because the five seconds elapsed
\* with the consumer task still running; a warning is logged, the task is
\* left running and main closes the connection all the same.
JoinTimeout ==
    /\ mpc = "join"
    /\ cpc \notin {"exited", "failed"}
    /\ connOpen' = FALSE
    /\ mpc' = "closed"
    /\ UNCHANGED <<calls, cpc, declared, mainQ, retryQ, dlq, unacked, wire, permit,
                   cur, dlog, nextTag, published, faults, metrics>>

\* main returns: the runtime is dropped, and a consumer task that is still
\* running is dropped with it wherever it stands.
MainReturns ==
    /\ mpc = "closed"
    /\ mpc' = "stopped"
    /\ cpc' = IF cpc \in {"exited", "failed"} THEN cpc ELSE "dropped"
    /\ cur' = NoDelivery
    /\ UNCHANGED <<calls, declared, mainQ, retryQ, dlq, unacked, wire, permit,
                   connOpen, dlog, nextTag, published, faults, metrics>>


\* ====================================================================
\* The broker and the other publishers
\* ====================================================================

\* A publisher other than the consumer sends a message to Q through the
\* default exchange, with or without an x-retry-count header of its own.
ForeignPublish(p, c) ==
    /\ Declared(MainQueueName)
    /\ p \notin published
    /\ published' = published \cup {p}
    /\ mainQ' = Append(mainQ, NewMessage(p, c))
    /\ UNCHANGED <<calls, mpc, cpc, declared, retryQ, dlq, unacked, wire, permit,
                   connOpen, cur, dlog, nextTag, faults, metrics>>

\* The broker handles the publish frame at the head of the wire and routes
\* the message to the queue named by the routing key.  It tells the
\* publisher only on a channel in confirm mode.
BrokerPublish ==
    /\ wire # <<>>
    /\ Head(wire).kind = "publish"
    /\ LET f == Head(wire) IN
         /\ retryQ' = IF f.queue = "retry" THEN Append(retryQ, f.msg) ELSE retryQ
         /\ dlq' = IF f.queue = "dlq" THEN Append(dlq, f.msg) ELSE dlq
         /\ dlog' = [dlog EXCEPT ![f.tag].pub = "enq",
                                 ![f.tag].confirmed = ConfirmSelect]
    /\ wire' = Tail(wire)
    /\ UNCHANGED <<calls, mpc, cpc, declared, mainQ, unacked, permit, connOpen, cur,
                   nextTag, published, faults, metrics>>

\* The broker does not enqueue the publish at the head of the wire (the
\* publish has mandatory = false: a message the broker cannot route or
\* store is dropped without a word on a channel that is not in confirm mode).
BrokerRefuses ==
    /\ wire # <<>>
    /\ Head(wire).kind = "publish"
    /\ faults < MaxFaults
    /\ faults' = faults + 1
    /\ dlog' = [dlog EXCEPT ![Head(wire).tag].pub = "lost"]
    /\ wire' = Tail(wire)
    /\ UNCHANGED <<calls, mpc, cpc, declared, mainQ, retryQ, dlq, unacked, permit,
                   connOpen, cur, nextTag, published, metrics>>

\* The broker handles the ack frame at the head of the wire.
BrokerAck ==
    /\ wire # <<>>
    /\ Head(wire).kind = "ack"
    /\ unacked' = {u \in unacked : u.tag # Head(wire).tag}
    /\ wire' = Tail(wire)
    /\ UNCHANGED <<calls, mpc, cpc, declared, mainQ, retryQ, dlq, permit, connOpen,
                   cur, dlog, nextTag, published, faults, metrics>>

\* The message at the head of Q.retry or Q.dlq outlives the x-message-ttl
\* its queue was declared with (a queue declared without one keeps its
\* messages): the broker takes it out and dead-letters it through the
\* queue's x-dead-letter-exchange to the queue named by
\* x-dead-letter-routing-key.
Expire(q) ==
    /\ Declared(q)
    /\ LET a == CHOOSE d \in declared : d.name = q
           src == IF q = RetryName THEN retryQ ELSE dlq
           to(name, rest) ==
               IF a.dlx = "" /\ a.dlrk = name THEN Append(rest, Head(src))
               ELSE rest
       IN
         /\ src # <<>>
         /\ a.ttl > 0
         /\ mainQ' = to(MainQueueName, mainQ)
         /\ retryQ' = to(RetryName, IF q = RetryName THEN Tail(retryQ) ELSE retryQ)
         /\ dlq' = to(DlqName, IF q = DlqName THEN Tail(dlq) ELSE dlq)
    /\ UNCHANGED <<calls, mpc, cpc, declared, unacked, wire, permit, connOpen, cur,
                   dlog, nextTag, published, faults, metrics>>

\* The messages of the deliveries us, in delivery tag order.
RECURSIVE Delivered(_)
Delivered(us) ==
    IF us = {} THEN <<>>
    ELSE LET u == CHOOSE x \in us : \A y \in us : x.tag <= y.tag IN
           <<u.msg>> \o Delivered(us \ {u})

\* The channel is closed and every frame sent on it has been handled: the
\* broker puts the deliveries that were never acked back into Q.
BrokerRequeue ==
    /\ ~connOpen
    /\ wire = <<>>
    /\ unacked # {}
    /\ mainQ' = Delivered(unacked) \o mainQ
    /\ unacked' = {}
    /\ UNCHANGED <<calls, mpc, cpc, declared, retryQ, dlq, wire, permit, connOpen, cur,
                   dlog, nextTag, published, faults, metrics>>

\* ====================================================================
Next ==
    \/ DeclareQueue
    \/ DeclareFails
    \/ SpawnConsumer
    \/ ConsumeOk
    \/ ConsumeFails
    \/ SelectShutdown
    \/ SelectDelivery
    \/ SelectRecvError
    \/ SelectStreamEnd
    \/ \E o \in Outcomes : HandlerReturns(o)
    \/ PublishOk
    \/ PublishFails
    \/ AwaitConfirm
    \/ AckOk
    \/ AckFails
    \/ CtrlC
    \/ JoinReturns
    \/ JoinTimeout
    \/ MainReturns
    \/ \E p \in Publishers, c \in ForeignCounts : ForeignPublish(p, c)
    \/ BrokerPublish
    \/ BrokerRefuses
    \/ BrokerAck
    \/ \E q \in {RetryName, DlqName} : Expire(q)
    \/ BrokerRequeue

Spec == Init /\ [][Next]_vars

\* ====================================================================
\* setup_queues on its own: the caller calls it again after it returned Ok.
\* ====================================================================
SetupAgain ==
    /\ mpc = "setup_ok"
    /\ calls < MaxCalls
    /\ calls' = calls + 1
    /\ mpc' = "setup1"
    /\ UNCHANGED <<cpc, declared, mainQ, retryQ, dlq, unacked, wire, permit,
                   connOpen, cur, dlog, nextTag, published, faults, metrics>>

NextSetup ==
    \/ DeclareQueue
    \/ DeclareFails
    \/ SetupAgain

SpecSetup == Init /\ [][NextSetup]_vars

\* ====================================================================
\* The main task makes progress on its own: the timer of timeout(5 s, ...)
\* fires when the consumer task has not ended, connection.close returns,
\* and main then returns.  Nothing is assumed of the consumer task, the
\* handler or the broker.  The publisher sends its message as
\* examples/publish_test.rs does, without headers: what x-retry-count holds
\* has no part in the shutdown sequence.
\* ====================================================================
NextLive ==
    \/ DeclareQueue
    \/ DeclareFails
    \/ SpawnConsumer
    \/ ConsumeOk
    \/ ConsumeFails
    \/ SelectShutdown
    \/ SelectDelivery
    \/ SelectRecvError
    \/ SelectStreamEnd
    \/ \E o \in Outcomes : HandlerReturns(o)
    \/ PublishOk
    \/ PublishFails
    \/ AwaitConfirm
    \/ AckOk
    \/ AckFails
    \/ CtrlC
    \/ JoinReturns
    \/ JoinTimeout
    \/ MainReturns
    \/ \E p \in Publishers : ForeignPublish(p, NoTable)
    \/ BrokerPublish
    \/ BrokerRefuses
    \/ BrokerAck
    \/ \E q \in {RetryName, DlqName} : Expire(q)
    \/ BrokerRequeue

SpecLive ==
    /\ Init
    /\ [][NextLive]_vars
    /\ WF_vars(JoinReturns \/ JoinTimeout)
    /\ WF_vars(MainReturns)

\* The consumer task makes progress: the runtime polls it, the handler
\* returns, and every await of process_message on the channel resolves, with
\* Ok or with an error.  select! polls its branches in a random order, so a
\* branch that is ready at select after select is taken in the end (strong
\* fairness).  Nothing is assumed of main's timer: the behaviours in which
\* the five seconds never elapse before the loop is left are among these.
ConsumerStep ==
    \/ ConsumeOk
    \/ ConsumeFails
    \/ \E o \in Outcomes : HandlerReturns(o)
    \/ PublishOk
    \/ PublishFails
    \/ AwaitConfirm
    \/ AckOk
    \/ AckFails

SpecFair ==
    /\ Init
    /\ [][NextLive]_vars
    /\ WF_vars(ConsumerStep)
    /\ SF_vars(SelectShutdown)

\* ====================================================================
\* The collector is started again after it has stopped: a new process, a new
\* connection and channel, new counters; the broker keeps its durable
\* queues and what is in them.  The broker has by then handled every frame
\* of the old channel and requeued its unacked deliveries.  (Delivery tags
\* go on counting across the runs, so that dlog keeps one entry per
\* delivery.)  In SpecRestart the handler rejects every delivery as
\* Permanent, the publisher sends without headers, and the broker enqueues
\* every publish it receives; calls of the consumer to the broker may fail.
\* ====================================================================
Restart ==
    /\ mpc \in {"stopped", "exit1"}
    /\ calls < MaxCalls
    /\ wire = <<>>
    /\ unacked = {}
    /\ calls' = calls + 1
    /\ mpc' = "setup1"
    /\ cpc' = "idle"
    /\ connOpen' = TRUE
    /\ permit' = FALSE
    /\ cur' = NoDelivery
    /\ metrics' = NoMetrics
    /\ UNCHANGED <<declared, mainQ, retryQ, dlq, unacked, wire, dlog, nextTag,
                   published, faults>>

NextRestart ==
    \/ DeclareQueue
    \/ DeclareFails
    \/ SpawnConsumer
    \/ ConsumeOk
    \/ ConsumeFails
    \/ SelectShutdown
    \/ SelectDelivery
    \/ SelectRecvError
    \/ SelectStreamEnd
    \/ HandlerReturns(Permanent("e1"))
    \/ PublishOk
    \/ PublishFails
    \/ AwaitConfirm
    \/ AckOk
    \/ AckFails
    \/ CtrlC
    \/ JoinReturns
    \/ JoinTimeout
    \/ MainReturns
    \/ \E p \in Publishers : ForeignPublish(p, NoTable)
    \/ BrokerPublish
    \/ BrokerAck
    \/ BrokerRequeue
    \/ Restart

SpecRestart == Init /\ [][NextRestart]_vars


\* ====================================================================
\* Properties
\* ====================================================================

Range(q) == {q[i] : i \in 1..Len(q)}

Tags == 1..Len(dlog)

\* The publish frames on the wire.
PublishFrames == {f \in Range(wire) : f.kind = "publish"}

\* Every message that sits somewhere between the consumer and the broker.
AllMessages ==
    Range(mainQ) \cup Range(retryQ) \cup Range(dlq)
      \cup {f.msg : f \in PublishFrames} \cup {u.msg : u \in unacked}

\* The messages the consumer has published to Q.retry, wherever they are now.
Retried == {m \in AllMessages : m.via = "retry"}

\* The messages the consumer has published to Q.dlq.
DeadLettered == {m \in AllMessages : m.via = "dlq"}

\* The retry counter a header value stands for: the number when it is a
\* 32-bit unsigned integer, 0 otherwise.
CountOf(h) == IF h.t = "u32" THEN h.v ELSE 0

\* The publish frame written for the delivery process_message is working on.
CurFrames == {f \in PublishFrames : f.tag = cur.tag}

\* C1 (as claimed): a delivery routed to retry or DLQ is acked only once the
\* broker has confirmed its republish to the consumer.
C1_AckOnlyAfterConfirm ==
    \A t \in Tags :
        (dlog[t].acks > 0 /\ dlog[t].route \in {"retry", "dlq"})
            => dlog[t].confirmed

\* C2: the route process_message takes is the one the table gives for the
\* handler outcome and the retry count of the incoming delivery: Ok -> ack
\* and no publish; Transient below 3 -> Q.retry; Transient at 3 or more ->
\* Q.dlq; Permanent -> Q.dlq; and the publish frame goes to that queue.
C2_RouteTable ==
    /\ cur.route # "none" =>
          /\ cur.retry_count = CountOf(cur.msg.hdr.rc)
          /\ cur.outcome.kind = "ok" => cur.route = "ack"
          /\ (cur.outcome.kind = "transient" /\ cur.retry_count < 3)
                => cur.route = "retry"
          /\ (cur.outcome.kind = "transient" /\ cur.retry_count >= 3)
                => cur.route = "dlq"
          /\ cur.outcome.kind = "permanent" => cur.route = "dlq"
    /\ cpc \in {"publish", "confirm"} => cur.route \in {"retry", "dlq"}
    /\ \A f \in PublishFrames :
          /\ f.queue = dlog[f.tag].route
          /\ f.queue \in {"retry", "dlq"}
          /\ f.queue = "retry" => f.msg.via = "retry"
          /\ f.queue = "dlq" => f.msg.via = "dlq"
    /\ \A t \in Tags :
          /\ dlog[t].outcome = "ok" => (dlog[t].pubs = 0 /\ dlog[t].route = "ack")
          /\ dlog[t].outcome = "permanent" => dlog[t].route = "dlq"
          /\ dlog[t].pubs > 0 => dlog[t].route \in {"retry", "dlq"}

\* C2 witness: a Transient outcome on a delivery whose count is 3 is about
\* to be published to Q.dlq.
C2_Witness ==
    /\ cpc = "publish"
    /\ cur.outcome.kind = "transient"
    /\ cur.retry_count = 3
    /\ cur.route = "dlq"

\* C3: every message the consumer published to Q.retry carries x-retry-count
\* = (retry count of the delivery it was made from) + 1, as a 32-bit
\* unsigned integer, and that value is at most 3.
C3_RetryCountPlusOne ==
    \A m \in Retried :
        /\ m.hdr.rc.t = "u32"
        /\ m.hdr.rc.v = CountOf(m.inrc) + 1
        /\ m.hdr.rc.v <= 3

\* C3 witness: a message made from a delivery with count 2 sits in Q.retry
\* with count 3.
C3_Witness ==
    \E m \in Range(retryQ) : m.inrc = LongUInt(2) /\ m.hdr.rc = LongUInt(3)

\* C4 (as claimed): every message in Q has a retry counter of at most 3,
\* whoever put it there.
C4_MainQueueCountAtMost3 ==
    \A m \in Range(mainQ) : CountOf(m.hdr.rc) <= 3

\* C4 (amended): every message in Q that came back from Q.retry after a
\* republish by the consumer has a retry counter of at most 3.
C4_ReturnedCountAtMost3 ==
    \A m \in Range(mainQ) : m.via = "retry" => CountOf(m.hdr.rc) <= 3

\* C4 witness: a message is back in Q from Q.retry with counter 3.
C4_Witness ==
    \E m \in Range(mainQ) : m.via = "retry" /\ CountOf(m.hdr.rc) = 3

\* C5 (as claimed): every delivery process_message has finished with was
\* acked exactly once, with at most one republish.
C5_AckedExactlyOnce ==
    \A t \in Tags : dlog[t].done => (dlog[t].acks = 1 /\ dlog[t].pubs <= 1)

\* C5 (amended): each delivery tag is acked at most once and republished at
\* most once; an ack of a routed delivery follows exactly one republish; and
\* a delivery finished with no failed broker call was acked exactly once.
C5_AtMostOnce ==
    \A t \in Tags :
        /\ dlog[t].acks <= 1
        /\ dlog[t].pubs <= 1
        /\ (dlog[t].acks = 1 /\ dlog[t].route \in {"retry", "dlq"})
              => dlog[t].pubs = 1
        /\ (dlog[t].acks = 1 /\ dlog[t].route = "ack") => dlog[t].pubs = 0
        /\ (dlog[t].done /\ dlog[t].pub # "err" /\ ~dlog[t].ackerr)
              => dlog[t].acks = 1
        /\ (dlog[t].pub = "err" \/ dlog[t].ackerr) => dlog[t].acks = 0

\* C5 witness: a delivery answered by retry-republish + ack.
C5_Witness ==
    \E t \in Tags :
        /\ dlog[t].done
        /\ dlog[t].route = "retry"
        /\ dlog[t].pubs = 1
        /\ dlog[t].acks = 1

\* C6 (as claimed): a delivery whose republish failed, in the send or at the
\* broker, is not acked.
C6_FailedPublishNotAcked ==
    \A t \in Tags : dlog[t].pub \in {"err", "lost"} => dlog[t].acks = 0

\* C7: the message published to Q.dlq carries the reason and the type of the
\* handler outcome being routed and the main queue's name, whatever
\* x-error-type and x-error-reason the delivery came with.
C7_DlqProvenance ==
    /\ \A f \in CurFrames :
          f.queue = "dlq" =>
             /\ f.msg.hdr.reason = cur.outcome.reason
             /\ f.msg.hdr.etype = cur.outcome.kind
             /\ f.msg.hdr.origq = "telemetry"
    /\ \A m \in DeadLettered :
          /\ m.hdr.reason \in Reasons
          /\ m.hdr.etype \in {"transient", "permanent"}
          /\ m.hdr.origq = "telemetry"
    /\ \A m \in Range(dlq) : m.via = "dlq"

\* C7 witness: a delivery that came with x-error-type = "transient" and
\* another reason, from an earlier retry, is published to Q.dlq as permanent.
C7_Witness ==
    \E f \in CurFrames :
        /\ f.queue = "dlq"
        /\ cur.msg.hdr.etype = "transient"
        /\ cur.msg.hdr.reason # cur.outcome.reason
        /\ cur.outcome.kind = "permanent"
        /\ f.msg.hdr.etype = "permanent"

\* C8: a republished message has the payload of the delivery it was made
\* from, and so every message has the payload it entered Q with.
C8_PayloadPreserved ==
    /\ \A f \in CurFrames : f.msg.data = cur.msg.data
    /\ \A m \in AllMessages : m.data = m.orig /\ m.data \in Publishers

\* C8 witness: a message that has been through Q.retry three times is in
\* Q.dlq with its payload.
C8_Witness ==
    /\ Len(dlog) = 4
    /\ \E m \in Range(dlq) : m.hdr.rc = LongUInt(3) /\ m.data = "a"

\* C9 (as claimed): when the consumer writes x-retry-count on a message that
\* had the header, of whatever type, the value written is larger than the
\* value the header held.
C9_WrittenLargerAnyType ==
    \A m \in Retried : m.inrc.t \in {"u32", "i32"} => m.hdr.rc.v > m.inrc.v

\* C9 (amended): when the consumer writes x-retry-count on a message whose
\* header was a 32-bit unsigned integer, the value written is larger than
\* the value the header held.
C9_WrittenLargerU32 ==
    \A m \in Retried : m.inrc.t = "u32" => m.hdr.rc.v > m.inrc.v

\* C9 witness: a header that held 2 has been overwritten with 3.
C9_Witness ==
    \E m \in Retried : m.inrc = LongUInt(2) /\ m.hdr.rc.v = 3

\* C10 (as claimed): no delivery is dispatched once notify_one was called.
C10_NoDispatchAfterNotify ==
    \A t \in Tags : ~dlog[t].afterNotify

\* C11 (as claimed): when notify_one was called while the handler was
\* running on a delivery and the loop has since exited, process_message has
\* returned for that delivery, the delivery was acked unless a broker call
\* failed, the gauge is back at 0, and no other delivery was taken from the
\* stream between the notification and the exit.
C11_InFlightThenExit ==
    \A t \in Tags :
        (dlog[t].signalled /\ cpc = "exited") =>
            /\ dlog[t].done
            /\ (dlog[t].pub # "err" /\ ~dlog[t].ackerr) => dlog[t].acks = 1
            /\ metrics.active = 0
            /\ \A u \in Tags : ~dlog[u].afterNotify

\* Scenario S2: the message was published without an x-retry-count header,
\* the handler has returned Transient on every delivery so far, and no broker
\* call has failed (the connection is open, no fault was injected).
AlwaysTransient ==
    /\ Len(dlog) >= 1
    /\ dlog[1].inrc \in {NoTable, Absent}
    /\ faults = 0
    /\ connOpen
    /\ \A t \in Tags : dlog[t].outcome \in {"none", "transient"}

\* The deliveries the handler has returned for.
Handled == {t \in Tags : dlog[t].outcome # "none"}

\* C12: in scenario S2 there are at most four deliveries; delivery k comes
\* with count k - 1; deliveries 1, 2, 3 are republished to Q.retry with
\* x-retry-count 1, 2, 3 and delivery 4 to Q.dlq with x-error-type
\* "transient" and x-retry-count 3; every delivery finished was republished
\* once and acked once; the counters follow, and when the fourth delivery is
\* finished they are retried = 3, dlq = 1, failed{transient} = 4.
C12_ThreeRetriesThenDlq ==
    AlwaysTransient =>
        /\ Len(dlog) <= 4
        /\ \A t \in Tags :
              /\ t > 1 => dlog[t].inrc = LongUInt(t - 1)
              /\ dlog[t].route \in {"none", IF t <= 3 THEN "retry" ELSE "dlq"}
              /\ dlog[t].done => (dlog[t].pubs = 1 /\ dlog[t].acks = 1)
              /\ t < Len(dlog) => dlog[t].done
        /\ \A f \in PublishFrames :
              /\ f.queue = "retry" => (f.tag <= 3 /\ f.msg.hdr.rc = LongUInt(f.tag))
              /\ f.queue = "dlq" => f.tag = 4
        /\ \A m \in DeadLettered :
              m.hdr.rc = LongUInt(3) /\ m.hdr.etype = "transient"
        /\ Len(dlq) <= 1
        /\ metrics.failed_transient = Cardinality(Handled)
        /\ metrics.retried = Cardinality(Handled \cap 1..3)
        /\ metrics.dlq = Cardinality(Handled \cap {4})
        /\ metrics.processed = 0 /\ metrics.failed_permanent = 0
        /\ (Len(dlog) = 4 /\ dlog[4].done) =>
              /\ metrics.retried = 3
              /\ metrics.dlq = 1
              /\ metrics.failed_transient = 4
              /\ wire = <<>> => (Len(dlq) = 1 /\ mainQ = <<>> /\ retryQ = <<>>)

\* C12 witness: scenario S2 has run to its end: four deliveries finished and
\* the message is in Q.dlq.
C12_Witness ==
    /\ AlwaysTransient
    /\ Len(dlog) = 4
    /\ dlog[4].done
    /\ wire = <<>>
    /\ Len(dlq) = 1
    /\ unacked = {}

\* No delivery is in flight: process_message has returned for every
\* delivery taken from the stream.
Quiescent == \A t \in Tags : dlog[t].done

\* The deliveries with handler result k that took route r.
RoutedAs(k, r) == {t \in Tags : dlog[t].outcome = k /\ dlog[t].route = r}

\* C13 (as claimed): at a quiescent state processed + dlq-from-permanent +
\* dlq-from-exhausted-transient = deliveries taken from Q.
C13_OutcomeSum ==
    Quiescent =>
        metrics.processed + Cardinality(RoutedAs("permanent", "dlq"))
            + Cardinality(RoutedAs("transient", "dlq")) = Len(dlog)

\* C13 (amended): at a quiescent state processed + dlq-from-permanent +
\* dlq-from-exhausted-transient + retried = deliveries taken from Q; the
\* counters are processed = the Ok deliveries, messages_dlq_total = the two
\* DLQ terms, messages_retried_total = the deliveries routed to Q.retry.
C13_OutcomeSumWithRetried ==
    Quiescent =>
        /\ metrics.processed + Cardinality(RoutedAs("permanent", "dlq"))
              + Cardinality(RoutedAs("transient", "dlq")) + metrics.retried
                = Len(dlog)
        /\ metrics.processed = Cardinality(RoutedAs("ok", "ack"))
        /\ metrics.retried = Cardinality(RoutedAs("transient", "retry"))
        /\ metrics.dlq = Cardinality(RoutedAs("permanent", "dlq"))
                           + Cardinality(RoutedAs("transient", "dlq"))

\* C13 witness: a quiescent state after a retried delivery and a later
\* delivery that was processed.
C13_Witness ==
    /\ Quiescent
    /\ Len(dlog) = 2
    /\ dlog[1].route = "retry"
    /\ dlog[2].route = "ack"
    /\ cpc = "select"

\* C14 (as claimed): a delivery routed to the DLQ (Permanent, or Transient
\* with the budget used up) whose original is acked and whose frames the
\* broker has all handled has its copy in Q.dlq, with the reason, the error
\* type, the originating queue, the retry count reached (an absent header
\* read as 0), the timestamp and the payload.  The original is gone from Q
\* by then, so a copy that is not in Q.dlq never will be.
C14_DeadLetteredAppears ==
    \A t \in Tags :
        (/\ dlog[t].route = "dlq"
         /\ dlog[t].acks = 1
         /\ \A f \in Range(wire) : f.tag # t)
          => \E m \in Range(dlq) :
                /\ m.hdr.reason \in Reasons
                /\ m.hdr.etype = dlog[t].outcome
                /\ m.hdr.origq = MainQueueName
                /\ CountOf(m.hdr.rc) = CountOf(dlog[t].inrc)
                /\ m.ts
                /\ m.data = m.orig

\* The queue triple as specified: Q.dlq without arguments, Q.retry with
\* x-message-ttl 5000 dead-lettering through the default exchange to Q, and
\* Q dead-lettering through the default exchange to Q.dlq.
SpecifiedTriple ==
    {[name |-> "telemetry.dlq", ttl |-> 0, dlx |-> "none", dlrk |-> ""],
     [name |-> "telemetry.retry", ttl |-> 5000, dlx |-> "", dlrk |-> "telemetry"],
     [name |-> "telemetry", ttl |-> 0, dlx |-> "", dlrk |-> "telemetry.dlq"]}

\* C15: a call of setup_queues made after an earlier call returned Ok leaves
\* the broker's queues and their arguments as they are at every step, and
\* fails only when a queue_declare fails in transport; the queues are the
\* triple the first call left.
C15_SetupIdempotent ==
    /\ [](calls >= 2 => declared = SpecifiedTriple)
    /\ [][calls >= 2 =>
            /\ declared' = declared
            /\ mpc' = "exit1" => faults' = faults + 1]_vars

\* C15 witness: the second call has returned Ok.
C15_Witness == calls = 2 /\ mpc = "setup_ok" /\ declared = SpecifiedTriple

\* C16: setup_queues gets past a declaration only when it succeeded, so the
\* queues it has gone past exist as specified; after exit(1) the consumer
\* task was never spawned, subscribed nothing and took no delivery; and
\* whenever the consumer task exists or a delivery was taken, the broker has
\* Q, Q.retry and Q.dlq with the specified arguments.
C16_NoConsumeWithoutTriple ==
    /\ \A d \in SpecifiedTriple :
          /\ (d.name = "telemetry.dlq" /\ mpc \in {"setup2", "setup3", "setup_ok"})
                => d \in declared
          /\ (d.name = "telemetry.retry" /\ mpc \in {"setup3", "setup_ok"})
                => d \in declared
          /\ (d.name = "telemetry" /\ mpc = "setup_ok") => d \in declared
    /\ mpc \in {"setup1", "setup2", "setup3", "setup_ok", "exit1"} =>
          /\ cpc = "idle"
          /\ dlog = <<>>
          /\ unacked = {}
          /\ metrics = NoMetrics
    /\ (cpc # "idle" \/ dlog # <<>>) => declared = SpecifiedTriple

\* C16 witness: the third declaration was refused (Q exists with other
\* arguments), the process has exited with code 1, and a message waits in Q
\* that no consumer takes.
C16_Witness ==
    /\ mpc = "exit1"
    /\ faults = 0
    /\ cpc = "idle"
    /\ mainQ # <<>>
    /\ \E d \in declared : d.name = "telemetry" /\ d \notin SpecifiedTriple
    /\ \E d \in declared : d.name = "telemetry.retry" /\ d \in SpecifiedTriple
    /\ \E d \in declared : d.name = "telemetry.dlq" /\ d \in SpecifiedTriple

\* The consumer task is inside the loop of Consumer::start.
LoopStates == {"select", "handle", "publish", "confirm", "ack"}

\* C17: the consumer task leaves the loop only from the select, through the
\* shutdown branch (a notification is pending) or the end of the stream
\* (the connection is closed), unless the whole task is dropped because main
\* returned; a step in which a publish or an ack fails, or the stream yields
\* an error, ends with the task back in the select, and the handler's
\* return, whatever the result, leads to the ack or the publish.
C17_LoopExits ==
    [][/\ (cpc \in LoopStates /\ cpc' \notin LoopStates) =>
             \/ cpc = "select" /\ cpc' = "exited" /\ (permit \/ ~connOpen)
             \/ cpc' = "dropped" /\ mpc' = "stopped"
       /\ \A t \in Tags :
             \/ dlog'[t].pub = "err" /\ dlog[t].pub # "err"
             \/ dlog'[t].ackerr /\ ~dlog[t].ackerr
             => cpc' = "select"
       /\ (cpc = "select" /\ faults' > faults) => cpc' = "select"
       /\ (cpc = "handle" /\ cpc' \notin {"handle", "dropped"})
             => cpc' \in {"publish", "ack"}]_vars

\* C17 witness: a publish has failed and the task is back in the select,
\* with the connection open.
C17_Witness ==
    /\ cpc = "select"
    /\ connOpen
    /\ \E t \in Tags : dlog[t].pub = "err"

\* C18: at most one delivery is unfinished, and it is the last one taken:
\* process_message has returned for every earlier delivery.  In the select
\* none is unfinished.  The unfinished delivery is the one process_message
\* holds, with at most one publish frame and no ack frame written for it;
\* every other frame on the wire belongs to a call that has returned (as
\* long as the task has not been dropped with the runtime).
C18_OneAtATime ==
    /\ Cardinality({t \in Tags : ~dlog[t].done}) <= 1
    /\ \A t \in Tags : ~dlog[t].done => t = Len(dlog)
    /\ cpc = "select" => (Quiescent /\ cur = NoDelivery)
    /\ cpc \in {"handle", "publish", "confirm", "ack"} =>
          /\ cur.tag = Len(dlog)
          /\ ~dlog[cur.tag].done
          /\ Cardinality({i \in 1..Len(wire) : wire[i].tag = cur.tag}) <= 1
          /\ \A f \in Range(wire) : f.tag = cur.tag => f.kind = "publish"
          /\ cpc \in {"handle", "publish"} => \A f \in Range(wire) : f.tag # cur.tag
    /\ cpc # "dropped" =>
          \A f \in Range(wire) : f.tag # cur.tag => dlog[f.tag].done

\* C18 witness: the handler runs on the second delivery while the ack frame
\* of the first, whose basic_ack has returned, is still on the wire.
C18_Witness ==
    /\ cpc = "handle"
    /\ Len(dlog) = 2
    /\ dlog[1].done
    /\ \E f \in Range(wire) : f.tag = 1 /\ f.kind = "ack"

\* C19: the retry count process_message works with is the value of the
\* delivery's x-retry-count when that is a 32-bit unsigned integer, and 0
\* when the delivery has no header table, no such header, or the header as a
\* signed integer.
C19_GetRetryCount ==
    cur.tag # 0 =>
        LET h == cur.msg.hdr.rc IN
          /\ h.t \in {"notable", "none", "u32", "i32"}
          /\ h.t = "u32" => cur.retry_count = h.v
          /\ h.t = "notable" => cur.retry_count = 0
          /\ h.t = "none" => cur.retry_count = 0
          /\ h.t = "i32" => cur.retry_count = 0

\* C19 witness: a delivery whose x-retry-count is the signed integer 2 is
\* being processed with retry count 0.
C19_Witness ==
    /\ cur.tag # 0
    /\ cur.msg.hdr.rc = LongInt(2)
    /\ cur.retry_count = 0
    /\ cpc = "handle"

\* C20 (as claimed): the gauge is 1 while the consumer is inside its loop
\* and 0 in every other state, however the process shuts down.
C20_GaugeCountsLoops ==
    metrics.active = IF cpc \in LoopStates THEN 1 ELSE 0

\* C20 (amended): the gauge changes only by + 1 on the step into the loop
\* and by - 1 on the step out of it; it is 1 while the consumer is inside the
\* loop and 0 before the loop is entered, when basic_consume failed, and
\* after the loop has exited.  (A task dropped with the runtime keeps the
\* value it had.)
C20_GaugeInLoop ==
    /\ [](/\ metrics.active \in {0, 1}
          /\ cpc \in LoopStates => metrics.active = 1
          /\ cpc \in {"idle", "consume", "failed", "exited"} => metrics.active = 0)
    /\ [][metrics'.active # metrics.active =>
            \/ /\ cpc = "consume" /\ cpc' = "select"
               /\ metrics'.active = metrics.active + 1
            \/ /\ cpc = "select" /\ cpc' = "exited"
               /\ metrics'.active = metrics.active - 1]_vars

\* C20 witness: the loop was entered, a delivery was handled, the loop has
\* exited and main has returned; the gauge is 0.
C20_Witness ==
    /\ cpc = "exited"
    /\ mpc = "stopped"
    /\ dlog # <<>>
    /\ metrics.active = 0

\* C21: once notify_one is called main closes the connection and returns,
\* whatever the consumer task does (a handler that never returns included);
\* the consumer task is not dropped before the connection is closed, and
\* the step that closes the connection leaves the task and its delivery as
\* they are.
C21_ShutdownReachesClose ==
    /\ (mpc = "join") ~> (mpc = "closed" /\ ~connOpen)
    /\ (mpc = "join") ~> (mpc = "stopped")
    /\ [][/\ (cpc' = "dropped" /\ cpc # "dropped") => mpc = "closed"
          /\ (mpc = "join" /\ mpc' = "closed") =>
                (cpc' = cpc /\ cur' = cur /\ dlog' = dlog /\ ~connOpen')]_vars

\* C21 witness: main has closed the connection while the handler is still
\* running on a delivery.
C21_Witness ==
    /\ mpc = "closed"
    /\ ~connOpen
    /\ cpc = "handle"
    /\ cur.tag # 0

\* The deliveries whose basic_ack failed after their republish was sent.
AckFailedAfterPublish == {t \in Tags : dlog[t].ackerr /\ dlog[t].pubs = 1}

C23_RetryToMainDlqTerminal ==
    /\ [][Len(retryQ') < Len(retryQ) =>
            /\ mainQ' = Append(mainQ, Head(retryQ))
            /\ retryQ' = Tail(retryQ)
            /\ dlq' = dlq]_vars
    /\ [][/\ Len(dlq') >= Len(dlq)
          /\ \A i \in 1..Len(dlq) : dlq'[i] = dlq[i]]_vars
    /\ [](/\ \A m \in Range(mainQ) \cup Range(retryQ) : m.via # "dlq"
          /\ \A u \in unacked : u.msg.via # "dlq"
          /\ cur.msg.via # "dlq")

\* C23 witness: a message has come back from Q.retry, was delivered with
\* count 1 and has been routed to Q.dlq, where it lies while the consumer
\* waits in the select.
C23_Witness ==
    /\ Len(dlq) = 1
    /\ dlq[1].hdr.rc = LongUInt(1)
    /\ Len(dlog) = 2
    /\ dlog[2].inrc = LongUInt(1)
    /\ cpc = "select"
    /\ mainQ = <<>> /\ retryQ = <<>> /\ wire = <<>>

\* The deliveries for which a publish frame to queue r was written.
PublishedTo(r) == {t \in Tags : dlog[t].route = r /\ dlog[t].pubs >= 1}

\* C24 (as claimed): once process_message has returned for every delivery
\* taken, messages_retried_total is at most the number of messages published
\* to Q.retry and messages_dlq_total at most the number published to Q.dlq.
C24_CountersAfterPublish ==
    Quiescent =>
        /\ metrics.retried <= Cardinality(PublishedTo("retry"))
        /\ metrics.dlq <= Cardinality(PublishedTo("dlq"))

\* x-retry-count as a republish that does not write it passes it on: a
\* delivery without a header table gets a table without the header.
Kept(h) == IF h = NoTable THEN Absent ELSE h

\* C25: the message a republish builds has the publisher's own header of the
\* delivery it is made from; a retry republish also leaves x-original-queue
\* as it came, and a DLQ republish leaves x-retry-count as it came, type
\* and value; so every message in Q.dlq holds the x-retry-count of its last
\* delivery, and every message holds the publisher's header it entered Q
\* with.
C25_OtherHeadersKept ==
    /\ \A f \in CurFrames :
          /\ f.msg.hdr.other = cur.msg.hdr.other
          /\ f.queue = "retry" => f.msg.hdr.origq = cur.msg.hdr.origq
          /\ f.queue = "dlq" => f.msg.hdr.rc = Kept(cur.msg.hdr.rc)
    /\ \A m \in DeadLettered : m.hdr.rc = Kept(m.inrc)
    /\ \A m \in AllMessages :
          /\ m.hdr.other \in {"", m.orig}
          /\ m.via = "retry" => m.hdr.origq = ""

\* C25 witness: a delivery that came with x-retry-count = 3 (u32) and the
\* publisher's header has its DLQ copy on the wire with both.
C25_Witness ==
    \E f \in CurFrames :
        /\ f.queue = "dlq"
        /\ cur.msg.hdr.rc = LongUInt(3)
        /\ cur.msg.hdr.other = "a"
        /\ f.msg.hdr.rc = LongUInt(3)
        /\ f.msg.hdr.other = "a"

Specified(q) == CHOOSE d \in SpecifiedTriple : d.name = q

\* C27: setup_queues makes its declarations one after the other, Q.dlq, then
\* Q.retry, then Q: each declaration that succeeds leaves exactly that queue
\* on the broker beside what was there, the one of Q.retry is made with Q.dlq
\* declared and the one of Q with Q.dlq and Q.retry declared; a declaration
\* that fails ends the setup with nothing created and nothing removed, and
\* no later step removes a queue; so once setup_queues has declared Q the
\* three queues exist.
C27_DlqRetryThenMain ==
    /\ [](mpc \notin {"setup1", "setup2", "setup3", "exit1"} =>
             SpecifiedTriple \subseteq declared)
    /\ [][/\ declared \subseteq declared'
          /\ mpc = "setup1" =>
                /\ mpc' \in {"setup1", "setup2", "exit1"}
                /\ mpc' = "setup2" =>
                      declared' = declared \cup {Specified("telemetry.dlq")}
          /\ mpc = "setup2" =>
                /\ mpc' \in {"setup2", "setup3", "exit1"}
                /\ Specified("telemetry.dlq") \in declared
                /\ mpc' = "setup3" =>
                      declared' = declared \cup {Specified("telemetry.retry")}
          /\ mpc = "setup3" =>
                /\ mpc' \in {"setup3", "setup_ok", "exit1"}
                /\ Specified("telemetry.dlq") \in declared
                /\ Specified("telemetry.retry") \in declared
                /\ mpc' = "setup_ok" =>
                      declared' = declared \cup {Specified("telemetry")}
          /\ (mpc' = "exit1" \/ ~InSetup) => declared' = declared]_vars

\* C27 witness: the setup has failed at the declaration of Q.retry (a queue
\* of that name exists with other arguments) after that of Q.dlq succeeded:
\* the process has exited, Q.dlq exists as specified and there is no Q.
C27_Witness ==
    /\ mpc = "exit1"
    /\ faults = 0
    /\ Specified("telemetry.dlq") \in declared
    /\ \E d \in declared :
          d.name = "telemetry.retry" /\ d # Specified("telemetry.retry")
    /\ ~Declared("telemetry")

\* The deliveries on which the handler returned an outcome of kind k.
WithOutcome(k) == {t \in Tags : dlog[t].outcome = k}

\* C28: in every state, and so after every call of process_message that has
\* returned, messages_failed_total{transient} + messages_failed_total
\* {permanent} = messages_retried_total + messages_dlq_total and the number
\* of duration observations = processed + failed; each counter of failures
\* is the number of deliveries on which the handler returned that error and
\* there is one observation for each delivery the handler returned on,
\* whatever became of the publish and the ack.
C28_FailuresBalanceRoutes ==
    /\ metrics.failed_transient + metrics.failed_permanent
          = metrics.retried + metrics.dlq
    /\ metrics.observed
          = metrics.processed + metrics.failed_transient
              + metrics.failed_permanent
    /\ metrics.failed_transient = Cardinality(WithOutcome("transient"))
    /\ metrics.failed_permanent = Cardinality(WithOutcome("permanent"))
    /\ metrics.observed = Cardinality(Handled)

\* C28 witness: every call of process_message has returned, one of them
\* after a publish that failed and one after an ack that failed, and both
\* kinds of failure have been counted.
C28_Witness ==
    /\ Quiescent
    /\ \E t \in Tags : dlog[t].pub = "err"
    /\ \E t \in Tags : dlog[t].ackerr
    /\ metrics.failed_transient > 0
    /\ metrics.failed_permanent > 0

\* No publish and no ack of process_message has failed so far.
NoBrokerCallFailed ==
    \A t \in Tags : dlog[t].pub # "err" /\ ~dlog[t].ackerr

\* C29: while no publish and no ack has failed, a message that entered Q
\* with retry count c <= 3 (x-retry-count as get_retry_count reads it) has
\* been dispatched at most 4 - c times and republished to Q.retry at most
\* 3 - c times, whatever the handler returned; each dispatch after the
\* first finds the count one higher, and a dispatch that ended in the ack of
\* a processed message or in the DLQ routing is the last one: the main ->
\* retry -> main cycle has no more than 3 - c turns.
C29_AtMostFourMinusC ==
    (Len(dlog) >= 1 /\ NoBrokerCallFailed /\ CountOf(dlog[1].inrc) <= 3) =>
        LET c == CountOf(dlog[1].inrc) IN
          /\ Len(dlog) <= 4 - c
          /\ Cardinality({t \in Tags : dlog[t].route = "retry"}) <= 3 - c
          /\ \A t \in Tags :
                /\ t > 1 => dlog[t].inrc = LongUInt(c + t - 1)
                /\ dlog[t].route = "retry" => t <= 3 - c
                /\ dlog[t].route \in {"ack", "dlq"} => t = Len(dlog)
                /\ t < Len(dlog) =>
                      (dlog[t].done /\ dlog[t].pubs = 1 /\ dlog[t].acks = 1)
                /\ dlog[t].pubs <= 1

\* C29 witness: a message that entered Q with x-retry-count = 2 was
\* retried once and then, on a Permanent or Transient error, routed to
\* Q.dlq, where it is: two dispatches, one republish to Q.retry.
C29_Witness ==
    /\ NoBrokerCallFailed
    /\ Len(dlog) = 2
    /\ dlog[1].inrc = LongUInt(2)
    /\ dlog[1].route = "retry"
    /\ dlog[2].route = "dlq"
    /\ dlog[2].done
    /\ wire = <<>>
    /\ Len(dlq) = 1

====
